---------------------------- MODULE Spec2Model ----------------------------
(***************************************************************************)
(* A model of the pymeasure drivers (HP66312A, ACS400, Agilent53131A) and  *)
(* of the experiment Parameter classes.                                    *)
(*                                                                         *)
(* Two specifications share the module:                                    *)
(*   Spec       a driver object talking to an instrument over its bus      *)
(*              (reset, check_errors, and the instrument's error queue);   *)
(*   ParamSpec  one Parameter object: construction, assignments to .value, *)
(*              reads of .value and calls of is_set().                     *)
(***************************************************************************)
EXTENDS Integers, Sequences, FiniteSets, TLC

VARIABLES
    \* ---- driver and instrument (Spec) ----
    inst,       \* the driver class of the object
    errq,       \* the instrument's error queue, oldest first
    bus,        \* the bus traffic of the last driver operation
    ret,        \* what the last driver operation returned
    last,       \* the last event: "init", "fault", "reset", "check_errors"
    errq0,      \* the error queue when the last check_errors was called
    prev,       \* the event before the last one
    resetq,     \* the error queue when a reset that is the last event, or
                \* the one right before a check_errors, was called
    target,     \* the object the last operation was called on: "meter",
                \* "ch1", "ch2" or "ch3"
    member,     \* the property or method the last operation used
    given,      \* the argument of the last operation
    raised,     \* the exception the last driver operation raised
    calread,    \* <<b>> when the operation before the last one was
                \* cal_read() and the instrument delivered the bytes b to
                \* it, <<>> otherwise
    \* ---- parameter object (ParamSpec) ----
    py,         \* major version of the interpreter running the code
    cls,        \* the Parameter class of the object
    value_,     \* self._value
    default,    \* self.default
    minimum,    \* self.minimum   (IntegerParameter, FloatParameter)
    maximum,    \* self.maximum
    length_,    \* self._length   (VectorParameter)
    choices,    \* self._choices  (ListParameter)
    plast,      \* the last operation: "init", "set", "get", "is_set"
    arg,        \* the value passed to the last assignment
    old,        \* self._value before the last operation
    exc,        \* the exception the last operation raised ("" when none)
    msg,        \* which message the exception carried
    got         \* what the last read or is_set() returned

dvars == <<inst, errq, bus, ret, last, errq0, prev, resetq,
           target, member, given, raised, calread>>
pvars == <<py, cls, value_, default, minimum, maximum, length_, choices,
           plast, arg, old, exc, msg, got>>
vars  == <<inst, errq, bus, ret, last, errq0, prev, resetq,
           target, member, given, raised, calread,
           py, cls, value_, default, minimum, maximum, length_, choices,
           plast, arg, old, exc, msg, got>>

(***************************************************************************)
(* Bounds of the model.                                                    *)
(***************************************************************************)
MaxErrors == 3      \* longest error queue of the instrument
MaxInt    == 3      \* integers assigned to a parameter range over -1..MaxInt

(***************************************************************************)
(* Python values.  A value is a record [t, n, s, l]: its type, a number,  *)
(* a string and a list of elements.  A float carries its value in HALVES  *)
(* (n = 3 is 1.5), so that truncation by int() is something the model     *)
(* computes; nan and inf are floats named by s.                            *)
(***************************************************************************)
None_      == [t |-> "none",  n |-> 0, s |-> "", l |-> <<>>]
PyInt(k)     == [t |-> "int",   n |-> k, s |-> "", l |-> <<>>]
PyFloat(h)   == [t |-> "float", n |-> h, s |-> "", l |-> <<>>]
NaN        == [t |-> "float", n |-> 0, s |-> "nan", l |-> <<>>]
Inf        == [t |-> "float", n |-> 0, s |-> "inf", l |-> <<>>]
PyBool(b)    == [t |-> "bool",  n |-> IF b THEN 1 ELSE 0, s |-> "", l |-> <<>>]
PyStr(x)     == [t |-> "str",   n |-> 0, s |-> x, l |-> <<>>]
PyList(q)    == [t |-> "list",  n |-> 0, s |-> "", l |-> q]

IsNumber(v) == v.t \in {"int", "float", "bool"}
IsNaN(v)    == v.t = "float" /\ v.s = "nan"
IsInf(v)    == v.t = "float" /\ v.s = "inf"

\* Twice the numeric value of a finite number.
Halves(v) == IF v.t = "float" THEN v.n ELSE 2 * v.n

\* Python's a < b and a > b on numbers: false whenever either side is nan.
PyLess(a, b) ==
    /\ ~IsNaN(a) /\ ~IsNaN(b)
    /\ ~IsInf(a)
    /\ (IsInf(b) \/ Halves(a) < Halves(b))
PyGreater(a, b) == PyLess(b, a)

\* Python's a == b: numbers compare by value across int, float and bool.
PyEq(a, b) ==
    IF IsNumber(a) /\ IsNumber(b)
    THEN /\ ~IsNaN(a) /\ ~IsNaN(b)
         /\ IsInf(a) = IsInf(b)
         /\ (IsInf(a) \/ Halves(a) = Halves(b))
    ELSE a = b

\* What int(s) and float(s) make of the string literals the model uses
\* (a string the table does not hold is not a number).
IntLiterals   == [x \in {"2", " 1 "} |-> IF x = "2" THEN 2 ELSE 1]
FloatLiterals == [x \in {"2", " 1 ", "1.5", "nan", "inf"} |->
                    CASE x = "2"   -> PyFloat(4)
                      [] x = " 1 " -> PyFloat(2)
                      [] x = "1.5" -> PyFloat(3)
                      [] x = "nan" -> NaN
                      [] x = "inf" -> Inf]

Ok(v)     == [ok |-> TRUE,  v |-> v,     exc |-> ""]
Raise(e)  == [ok |-> FALSE, v |-> None_, exc |-> e]

\* int(v): truncation toward zero of a float, parsing of a string.
int_(v) ==
    CASE v.t = "int"   -> Ok(v)
      [] v.t = "bool"  -> Ok(PyInt(v.n))
      [] v.t = "float" ->
            IF IsNaN(v) THEN Raise("ValueError")
            ELSE IF IsInf(v) THEN Raise("OverflowError")
            ELSE Ok(PyInt(IF v.n >= 0 THEN v.n \div 2 ELSE -((-v.n) \div 2)))
      [] v.t = "str"   ->
            IF v.s \in DOMAIN IntLiterals THEN Ok(PyInt(IntLiterals[v.s]))
            ELSE Raise("ValueError")
      [] OTHER         -> Raise("TypeError")

\* float(v)
float_(v) ==
    CASE v.t = "float" -> Ok(v)
      [] v.t \in {"int", "bool"} -> Ok(PyFloat(2 * v.n))
      [] v.t = "str"   ->
            IF v.s \in DOMAIN FloatLiterals THEN Ok(FloatLiterals[v.s])
            ELSE Raise("ValueError")
      [] OTHER         -> Raise("TypeError")

\* bool(v): Python's truth value; it never raises.
bool_(v) ==
    CASE v.t = "none"  -> FALSE
      [] v.t = "str"   -> v.s # ""
      [] v.t = "list"  -> v.l # <<>>
      [] OTHER         -> IsNaN(v) \/ IsInf(v) \/ v.n # 0

(***************************************************************************)
(* The instrument: an error queue behind a textual command bus.            *)
(***************************************************************************)
Drivers == {"HP66312A", "ACS400", "Agilent53131A"}

\* The errors an instrument may queue: a code and the text of the message,
\* the text given as its pieces between commas (a reply line is split at
\* every comma by Instrument.values).
ErrorTable ==
    { [code |-> -113, text |-> <<"\"Undefined header\"">>],
      [code |-> -222, text |-> <<"\"Data out of range", " value clipped\"">>],
      [code |-> 5,    text |-> <<"\"No measurement\"">>] }

RECURSIVE SeqsUpTo(_, _)
SeqsUpTo(S, k) ==
    IF k = 0 THEN {<<>>}
    ELSE LET shorter == SeqsUpTo(S, k - 1)
         IN  shorter \cup {Append(q, e) : q \in shorter, e \in S}

\* A program message is a list of units separated by ";".
RECURSIVE Join(_)
Join(units) ==
    IF Len(units) = 1 THEN units[1]
    ELSE units[1] \o ";" \o Join(Tail(units))

KnownMessages ==
    { <<"*RST", "*CLS", "*SRE 0", "*ESE 0", ":STAT:PRES", "">>,
      <<"*RST", "*SRE 0", "*ESE 0", ":STAT:PRES", "">>,
      <<"*CLS">>,
      <<"SYST:ERR?">> }

\* The units of a message the instrument received.
Units(cmd) ==
    IF \E u \in KnownMessages : Join(u) = cmd
    THEN CHOOSE u \in KnownMessages : Join(u) = cmd
    ELSE <<cmd>>

\* What the instrument does with a message: *CLS empties the error queue,
\* SYST:ERR? removes the oldest error and makes it the reply (+0,"No error"
\* when the queue is empty).  The reply line is given as its fields.
InstrumentExec(cmd, q) ==
    LET u    == Units(cmd)
        has(x) == \E i \in 1..Len(u) : u[i] = x
    IN  IF has("SYST:ERR?")
        THEN IF q = <<>>
             THEN [q |-> q, reply |-> <<"0", "\"No error\"">>]
             ELSE [q |-> Tail(q),
                   reply |-> <<ToString(Head(q).code)>> \o Head(q).text]
        ELSE IF has("*CLS") THEN [q |-> <<>>, reply |-> <<>>]
        ELSE [q |-> q, reply |-> <<>>]

\* The number an instrument's numeric field denotes (the inverse of the
\* formatting in InstrumentExec).
NumberOf(field) ==
    IF field = "0" THEN 0
    ELSE (CHOOSE e \in ErrorTable : ToString(e.code) = field).code

BusWrite(cmd)  == [op |-> "write", cmd |-> cmd, reply |-> <<>>]
BusRead(reply) == [op |-> "read",  cmd |-> "",  reply |-> reply]

\* Instrument.write(cmd): one command write.
write(cmd, q, log) ==
    [q |-> InstrumentExec(cmd, q).q, log |-> Append(log, BusWrite(cmd))]

\* Instrument.values(cmd): one write, one read; the reply line is split at
\* its commas and every field that reads as a number becomes a float.
values(cmd, q, log) ==
    LET x == InstrumentExec(cmd, q)
    IN  [q   |-> x.q,
         log |-> log \o <<BusWrite(cmd), BusRead(x.reply)>>,
         val |-> [i \in 1..Len(x.reply) |->
                    IF i = 1 THEN PyFloat(2 * NumberOf(x.reply[1]))
                    ELSE PyStr(x.reply[i])]]

\* The name each driver puts in front of its error messages.
ErrorPrefix(d) ==
    CASE d = "HP66312A"      -> "HP 66312A"
      [] d = "ACS400"        -> "Agilent 34401A"
      [] d = "Agilent53131A" -> "Agilent 53131A"

ResetCommandNoCls == "*RST;*SRE 0;*ESE 0;:STAT:PRES;"
ResetCommand == "*RST;*CLS;*SRE 0;*ESE 0;:STAT:PRES;"

\* check_errors: "if int(err[0]) != 0"
is_error_negative(err) == int_(err[1]).v.n < 0
is_error(err) == int_(err[1]).v.n # 0

\* check_errors: errmsg = "<driver>: {0}: {1}".format(err[0], err[1])
format_error(d, err) ==
    [prefix |-> ErrorPrefix(d), code |-> err[1], text |-> err[2].s]

\* check_errors: errors.append(errmsg)
append_error_front(errors, errmsg) == <<errmsg>> \o errors
append_error(errors, errmsg) == Append(errors, errmsg)

check_errors_once(d, q, errors, log) ==
    LET x == values("SYST:ERR?", q, log)
    IN  [q |-> x.q,
         errors |-> IF is_error(x.val)
                    THEN append_error(errors, format_error(d, x.val))
                    ELSE errors,
         log |-> x.log]

\* check_errors: the "while True" loop
RECURSIVE check_errors_loop(_, _, _, _)
check_errors_loop(d, q, errors, log) ==
    LET x == values("SYST:ERR?", q, log)
    IN  IF is_error(x.val)
        THEN check_errors_loop(d, x.q,
                 append_error(errors, format_error(d, x.val)), x.log)
        ELSE [q |-> x.q, errors |-> errors, log |-> x.log]

(***************************************************************************)
(* Spec: the driver operations.                                            *)
(***************************************************************************)
Queues == SeqsUpTo(ErrorTable, MaxErrors)

Init ==
    /\ inst \in Drivers
    /\ errq \in Queues
    /\ bus = <<>>
    /\ ret = <<>>
    /\ last = "init"
    /\ errq0 = <<>>
    /\ prev = "init"
    /\ resetq = <<>>
    /\ target = "meter" /\ member = "" /\ given = None_ /\ raised = ""
    /\ calread = <<>>
    /\ py = 3 /\ cls = "Parameter" /\ value_ = None_ /\ default = None_
    /\ minimum = None_ /\ maximum = None_ /\ length_ = 0 /\ choices = None_
    /\ plast = "init" /\ arg = None_ /\ old = None_ /\ exc = "" /\ msg = ""
    /\ got = None_

\* The bytes the instrument delivered to the operation that now becomes the
\* one before the last, when that operation was cal_read()
CalReadBefore ==
    IF last = "call" /\ target = "meter" /\ member = "cal_read"
    THEN <<bus[Len(bus)].reply>> ELSE <<>>

\* The instrument queues an error between two driver operations.
Fault ==
    /\ Len(errq) < MaxErrors
    /\ \E e \in ErrorTable : errq' = Append(errq, e)
    /\ last' = "fault"
    /\ bus' = <<>> /\ ret' = <<>> /\ errq0' = <<>>
    /\ prev' = last /\ resetq' = <<>>
    /\ target' = "meter" /\ member' = "" /\ given' = None_ /\ raised' = ""
    /\ calread' = CalReadBefore
    /\ UNCHANGED inst
    /\ UNCHANGED pvars

\* reset()
reset ==
    LET x == write(ResetCommand, errq, <<>>)
    IN  /\ errq' = x.q
        /\ bus' = x.log
        /\ ret' = <<>>
        /\ last' = "reset"
        /\ errq0' = <<>>
        /\ prev' = last
        /\ resetq' = errq
        /\ target' = "meter" /\ member' = "" /\ given' = None_
        /\ raised' = ""
        /\ calread' = CalReadBefore
        /\ UNCHANGED inst
        /\ UNCHANGED pvars

\* check_errors()
check_errors ==
    LET x == check_errors_loop(inst, errq, <<>>, <<>>)
    IN  /\ errq0' = errq
        /\ errq' = x.q
        /\ bus' = x.log
        /\ ret' = x.errors
        /\ last' = "check_errors"
        /\ prev' = last
        /\ resetq' = IF last = "reset" THEN resetq ELSE <<>>
        /\ target' = "meter" /\ member' = "" /\ given' = None_
        /\ raised' = ""
        /\ calread' = CalReadBefore
        /\ UNCHANGED inst
        /\ UNCHANGED pvars

Next == Fault \/ reset \/ check_errors

Spec == Init /\ [][Next]_vars

(***************************************************************************)
(* C1: check_errors returns one entry per queued error, in the order the   *)
(* instrument reported them: the list has as many entries as the queue     *)
(* held at the call, and entry i carries the code and the text of the     *)
(* i-th oldest error.                                                      *)
(***************************************************************************)
C1_AllErrorsInOrder ==
    last = "check_errors" =>
        /\ Len(ret) = Len(errq0)
        /\ \A i \in 1..Len(ret) :
              /\ ret[i].code = PyFloat(2 * errq0[i].code)
              /\ ret[i].text = errq0[i].text[1]

C1_Witness ==
    /\ last = "check_errors"
    /\ Len(errq0) >= 2
    /\ errq0[1] # errq0[2]
    /\ Len(ret) = Len(errq0)

(***************************************************************************)
(* C2: when check_errors returns, the last reply it read had error code 0  *)
(* and the instrument's error queue is empty.                              *)
(***************************************************************************)
C2_QueueDrained ==
    last = "check_errors" =>
        /\ bus # <<>>
        /\ bus[Len(bus)].op = "read"
        /\ NumberOf(bus[Len(bus)].reply[1]) = 0
        /\ errq = <<>>

C2_Witness ==
    /\ last = "check_errors"
    /\ errq0 # <<>>
    /\ errq = <<>>
    /\ bus[Len(bus)].reply[1] = "0"

(***************************************************************************)
(* C3: reset writes the one command string                                 *)
(* "*RST;*CLS;*SRE 0;*ESE 0;:STAT:PRES;" and reads nothing, and a          *)
(* check_errors issued directly after a reset returns the empty list,     *)
(* whatever was queued before the reset.                                   *)
(***************************************************************************)
C3_ResetClearsQueue ==
    /\ last = "reset" =>
            bus = <<BusWrite("*RST;*CLS;*SRE 0;*ESE 0;:STAT:PRES;")>>
    /\ (last = "check_errors" /\ prev = "reset") => ret = <<>>

\* A check_errors that returned the empty list directly after the reset of
\* an instrument that had errors queued.
C3_Witness ==
    /\ last = "check_errors"
    /\ prev = "reset"
    /\ Len(resetq) >= 2
    /\ ret = <<>>

(***************************************************************************)
(* The Parameter classes (experiment/parameters.py).                       *)
(***************************************************************************)
Classes == {"Parameter", "IntegerParameter", "BooleanParameter",
            "FloatParameter", "VectorParameter", "ListParameter"}

\* The result of an operation on a parameter: the value self._value has
\* afterwards, the exception raised ("" when none) with its message, and
\* what was returned.
Done(v, r)        == [v |-> v, exc |-> "", msg |-> "", got |-> r]
Throw(v, e, m)    == [v |-> v, exc |-> e,  msg |-> m,  got |-> None_]

NotSet == "Parameter value is not set"

\* Parameter.is_set, ListParameter.is_set: self._value is not None
is_set_truthy(v) == bool_(v)
is_set(v) == v # None_

\* Parameter.value, BooleanParameter.value, ListParameter.value (getter)
Parameter_get(v) ==
    IF is_set(v) THEN Done(v, v) ELSE Throw(v, "ValueError", NotSet)

\* IntegerParameter.value (getter)
IntegerParameter_get(v) ==
    IF is_set(v)
    THEN LET c == int_(v)
         IN  IF c.ok THEN Done(v, c.v) ELSE Throw(v, c.exc, "")
    ELSE Throw(v, "ValueError", NotSet)

\* FloatParameter.value (getter)
FloatParameter_get(v) ==
    IF is_set(v)
    THEN LET c == float_(v)
         IN  IF c.ok THEN Done(v, c.v) ELSE Throw(v, c.exc, "")
    ELSE Throw(v, "ValueError", NotSet)

\* [float(ve) for ve in seq]: the first element that does not convert
\* decides the exception.
RECURSIVE FloatAll(_)
FloatAll(seq) ==
    IF seq = <<>> THEN Ok(PyList(<<>>))
    ELSE LET c == float_(seq[1])
             r == FloatAll(Tail(seq))
         IN  IF ~c.ok THEN c
             ELSE IF ~r.ok THEN r
             ELSE Ok(PyList(<<c.v>> \o r.v.l))

\* The characters of the strings the model iterates over.
Chars == [x \in {"", "2", "abc"} |->
            CASE x = ""    -> <<>>
              [] x = "2"   -> <<PyStr("2")>>
              [] x = "abc" -> <<PyStr("a"), PyStr("b"), PyStr("c")>>]

\* Iterating over a value: a list gives its elements, a string its
\* characters, anything else is not iterable.
Iterate(v) ==
    CASE v.t = "list" -> Ok(PyList(v.l))
      [] v.t = "str" /\ v.s \in DOMAIN Chars -> Ok(PyList(Chars[v.s]))
      [] OTHER -> Raise("TypeError")

\* VectorParameter.value (getter)
VectorParameter_get(v) ==
    IF is_set(v)
    THEN LET it == Iterate(v)
             c  == IF it.ok THEN FloatAll(it.v.l) ELSE it
         IN  IF c.ok THEN Done(v, c.v) ELSE Throw(v, c.exc, "")
    ELSE Throw(v, "ValueError", NotSet)

\* Parameter.value (setter)
Parameter_set(v, a) == Done(a, None_)

\* IntegerParameter.value (setter)
IntegerParameter_set_exclusive(v, a, lo, hi) ==
    LET c == int_(a)
    IN  IF ~c.ok
        THEN IF c.exc = "ValueError"
             THEN Throw(v, "ValueError", "IntegerParameter given non-integer value")
             ELSE Throw(v, c.exc, "")
        ELSE IF ~PyGreater(c.v, lo)
        THEN Throw(v, "ValueError", "IntegerParameter value is below the minimum")
        ELSE IF ~PyLess(c.v, hi)
        THEN Throw(v, "ValueError", "IntegerParameter value is above the maximum")
        ELSE Done(c.v, None_)
IntegerParameter_set(v, a, lo, hi) ==
    LET c == int_(a)
    IN  IF ~c.ok
        THEN IF c.exc = "ValueError"
             THEN Throw(v, "ValueError", "IntegerParameter given non-integer value")
             ELSE Throw(v, c.exc, "")
        ELSE IF PyLess(c.v, lo)
        THEN Throw(v, "ValueError", "IntegerParameter value is below the minimum")
        ELSE IF PyGreater(c.v, hi)
        THEN Throw(v, "ValueError", "IntegerParameter value is above the maximum")
        ELSE Done(c.v, None_)

\* FloatParameter.value (setter)
FloatParameter_set(v, a, lo, hi) ==
    LET c == float_(a)
    IN  IF ~c.ok
        THEN IF c.exc = "ValueError"
             THEN Throw(v, "ValueError", "FloatParameter given non-float value")
             ELSE Throw(v, c.exc, "")
        ELSE IF PyLess(c.v, lo)
        THEN Throw(v, "ValueError", "FloatParameter value is below the minimum")
        ELSE IF PyGreater(c.v, hi)
        THEN Throw(v, "ValueError", "FloatParameter value is above the maximum")
        ELSE Done(c.v, None_)

\* BooleanParameter.value (setter): bool() raises nothing
BooleanParameter_set(v, a) == Done(PyBool(bool_(a)), None_)

\* The strings assigned to a VectorParameter: whether value[0] is "[" and
\* value[-1] is "]", and value[1:-1].split(",").
VectorLiterals ==
    [x \in {"[2,1.5, 1 ]", "[2,1.5]", "[2,abc,1.5]", "2,1.5, 1 "} |->
        CASE x = "[2,1.5, 1 ]" ->
                [brackets |-> TRUE,
                 parts |-> <<PyStr("2"), PyStr("1.5"), PyStr(" 1 ")>>]
          [] x = "[2,1.5]" ->
                [brackets |-> TRUE, parts |-> <<PyStr("2"), PyStr("1.5")>>]
          [] x = "[2,abc,1.5]" ->
                [brackets |-> TRUE,
                 parts |-> <<PyStr("2"), PyStr("abc"), PyStr("1.5")>>]
          [] x = "2,1.5, 1 " ->
                [brackets |-> FALSE, parts |-> <<>>]]

\* VectorParameter.value (setter).  The name basestring exists in
\* Python 2 only: under Python 3 its lookup raises NameError.
VectorParameter_set(p, v, a, len) ==
    IF p = 3 THEN Throw(v, "NameError", "name 'basestring' is not defined")
    ELSE IF a.t = "str" /\ a.s = "" THEN Throw(v, "IndexError", "")
    ELSE IF a.t = "str" /\ a.s \notin DOMAIN VectorLiterals
    THEN Throw(v, "ValueError", "VectorParameter must be passed a vector denoted by square brackets")
    ELSE IF a.t = "str" /\ ~VectorLiterals[a.s].brackets
    THEN Throw(v, "ValueError", "VectorParameter must be passed a vector denoted by square brackets")
    ELSE IF a.t \notin {"str", "list"}
    THEN Throw(v, "ValueError", "VectorParameter given undesired value")
    ELSE LET raw_list == IF a.t = "str" THEN VectorLiterals[a.s].parts ELSE a.l
             c == FloatAll(raw_list)
         IN  IF Len(raw_list) # len
             THEN Throw(v, "ValueError", "VectorParameter given value of wrong length")
             ELSE IF c.ok THEN Done(c.v, None_)
             ELSE IF c.exc = "ValueError"
             THEN Throw(v, "ValueError", "VectorParameter given input that could not be converted to floats")
             ELSE Throw(v, c.exc, "")

\* value in self._choices
InChoices(a, ch) == \E i \in 1..Len(ch.l) : PyEq(a, ch.l[i])

\* ListParameter.value (setter)
ListParameter_set(v, a, ch) ==
    IF ch # None_ /\ InChoices(a, ch)
    THEN Done(a, None_)
    ELSE Throw(v, "ValueError", "Invalid choice for parameter")

(***************************************************************************)
(* The values the model constructs parameters with and assigns.            *)
(***************************************************************************)
Scalars ==
    {None_, NaN, Inf, PyBool(TRUE), PyBool(FALSE)}
    \cup {PyInt(k) : k \in -1..MaxInt}
    \cup {PyFloat(h) : h \in {-1, 1, 3, 2 * MaxInt + 1}}
    \cup {PyStr(x) : x \in {"2", "1.5", "abc", ""}}

Vectors ==
    { PyList(<<>>),
      PyList(<<PyInt(1), PyFloat(3)>>),
      PyList(<<PyInt(1), PyFloat(3), PyStr("2")>>),
      PyList(<<PyInt(1), PyStr("abc"), PyInt(0)>>),
      PyList(<<PyInt(1), None_, PyInt(0)>>),
      PyStr("[2,1.5, 1 ]"), PyStr("[2,1.5]"), PyStr("[2,abc,1.5]"),
      PyStr("2,1.5, 1 ") }

Inputs(c) ==
    IF c = "VectorParameter"
    THEN Vectors \cup {None_, PyInt(1), PyStr(""), PyStr("2"), PyStr("abc")}
    ELSE Scalars \cup {PyList(<<PyInt(1), PyFloat(3)>>)}

\* IntegerParameter.__init__, FloatParameter.__init__: minimum=-1e9,
\* maximum=1e9, and the ranges the model constructs them with.
DefaultMinimum == PyFloat(-2000000000)
DefaultMaximum == PyFloat(2000000000)
Ranges ==
    { <<DefaultMinimum, DefaultMaximum>>,
      <<PyInt(0), PyInt(MaxInt - 1)>>,
      <<PyFloat(1), PyFloat(3)>>,
      <<PyInt(1), PyInt(1)>> }

\* VectorParameter.__init__: length=3, and the lengths the model uses.
DefaultLength == 3
Lengths == {2, DefaultLength}

\* ListParameter.__init__: choices=None, and the lists the model uses.
ChoiceLists ==
    { None_,
      PyList(<<PyInt(1), PyInt(2)>>),
      PyList(<<PyStr("abc"), PyFloat(3)>>) }

\* Parameter.__init__ and the __init__ of every subclass: self._value is
\* the default as given.
ParamInit ==
    /\ py \in {2, 3}
    /\ cls \in Classes
    /\ default \in Inputs(cls)
    /\ value_ = default
    /\ \E r \in (IF cls \in {"IntegerParameter", "FloatParameter"}
                 THEN Ranges ELSE {<<None_, None_>>}) :
          minimum = r[1] /\ maximum = r[2]
    /\ length_ \in (IF cls = "VectorParameter" THEN Lengths ELSE {0})
    /\ choices \in (IF cls = "ListParameter" THEN ChoiceLists ELSE {None_})
    /\ plast = "init" /\ arg = None_ /\ old = None_
    /\ exc = "" /\ msg = "" /\ got = None_
    /\ inst = "HP66312A" /\ errq = <<>> /\ bus = <<>> /\ ret = <<>>
    /\ last = "init" /\ errq0 = <<>> /\ prev = "init" /\ resetq = <<>>
    /\ target = "meter" /\ member = "" /\ given = None_ /\ raised = ""
    /\ calread = <<>>

\* The outcome of "p.value = a"
SetResult(a) ==
    CASE cls = "Parameter"        -> Parameter_set(value_, a)
      [] cls = "IntegerParameter" -> IntegerParameter_set(value_, a, minimum, maximum)
      [] cls = "BooleanParameter" -> BooleanParameter_set(value_, a)
      [] cls = "FloatParameter"   -> FloatParameter_set(value_, a, minimum, maximum)
      [] cls = "VectorParameter"  -> VectorParameter_set(py, value_, a, length_)
      [] cls = "ListParameter"    -> ListParameter_set(value_, a, choices)

\* The outcome of reading "p.value"
GetResult ==
    CASE cls = "IntegerParameter" -> IntegerParameter_get(value_)
      [] cls = "FloatParameter"   -> FloatParameter_get(value_)
      [] cls = "VectorParameter"  -> VectorParameter_get(value_)
      [] OTHER                    -> Parameter_get(value_)

Apply(op, a, r) ==
    /\ plast' = op
    /\ arg' = a
    /\ old' = value_
    /\ value_' = r.v
    /\ exc' = r.exc
    /\ msg' = r.msg
    /\ got' = r.got
    /\ UNCHANGED <<py, cls, default, minimum, maximum, length_, choices>>
    /\ UNCHANGED dvars

\* p.value = a
SetValue == \E a \in Inputs(cls) : Apply("set", a, SetResult(a))

\* p.value
GetValue == Apply("get", None_, GetResult)

\* p.is_set()
CallIsSet == Apply("is_set", None_, Done(value_, PyBool(is_set(value_))))

ParamNext == SetValue \/ GetValue \/ CallIsSet

ParamSpec == ParamInit /\ [][ParamNext]_vars

(***************************************************************************)
(* Helpers of the claims about parameters.                                 *)
(***************************************************************************)
Bounded == cls \in {"IntegerParameter", "FloatParameter"}

\* Python's a == b and a <= b on numbers
NumEq(a, b)  == IsNumber(a) /\ IsNumber(b) /\ PyEq(a, b)
NumLeq(a, b) == IsNumber(a) /\ IsNumber(b) /\ (PyLess(a, b) \/ PyEq(a, b))

\* The number the class makes of an assigned value
Converted(a) == IF cls = "IntegerParameter" THEN int_(a) ELSE float_(a)

(***************************************************************************)
(* C4: an IntegerParameter or FloatParameter that is set holds a value v   *)
(* with minimum <= v <= maximum, in every state reachable by construction  *)
(* with any default and any sequence of assignments.                       *)
(***************************************************************************)
C4_ValueWithinBounds ==
    (Bounded /\ value_ # None_) =>
        (NumLeq(minimum, value_) /\ NumLeq(value_, maximum))

C5_InclusiveReached ==
    /\ plast = "set" /\ cls = "IntegerParameter"
    /\ NumEq(arg, maximum) /\ ~NumEq(old, maximum)
    /\ exc = "" /\ NumEq(value_, maximum)

(***************************************************************************)
(* C6: is_set() returns True exactly when the stored value is not None;    *)
(* reading .value of a parameter that is not set raises ValueError and     *)
(* changes nothing; reading .value of a set parameter never raises         *)
(* ValueError("Parameter value is not set").                               *)
(***************************************************************************)
C6_IsSetAndRead ==
    /\ plast = "is_set" =>
          (got = PyBool(old.t # "none") /\ exc = "" /\ value_ = old)
    /\ (plast = "get" /\ old.t = "none") =>
          (exc = "ValueError" /\ value_ = old)
    /\ (plast = "get" /\ old.t # "none") =>
          ~(exc = "ValueError" /\ msg = NotSet)

\* A read of a ListParameter that holds None raised "not set".
C6_Witness ==
    /\ plast = "get"
    /\ cls = "ListParameter"
    /\ old = None_
    /\ exc = "ValueError" /\ msg = NotSet

(***************************************************************************)
(* C7: a ListParameter constructed with choices=None accepts every         *)
(* assignment and stores the value.                                        *)
(***************************************************************************)
C7_NoChoicesAcceptsAll ==
    (cls = "ListParameter" /\ choices = None_ /\ plast = "set") =>
        (exc = "" /\ value_ = arg)

(***************************************************************************)
(* C8: a ListParameter with an explicit choices list, once set, holds a    *)
(* member of choices, in every state reachable by construction with any    *)
(* default and any assignments; the assignment of a non-member raises      *)
(* ValueError and leaves the stored value unchanged.                       *)
(***************************************************************************)
C8_ValueAmongChoices ==
    (cls = "ListParameter" /\ choices # None_) =>
        /\ value_ # None_ => InChoices(value_, choices)
        /\ (plast = "set" /\ ~InChoices(arg, choices)) =>
              (exc = "ValueError" /\ value_ = old)

(***************************************************************************)
(* C9: a VectorParameter rejects a list whose length is not `length` with  *)
(* ValueError, leaving the stored value unchanged, and once set holds a    *)
(* sequence of exactly `length` numbers, in every state reachable by       *)
(* construction with any default and any assignments.                      *)
(***************************************************************************)
C9_VectorOfDeclaredLength ==
    cls = "VectorParameter" =>
        /\ (plast = "set" /\ arg.t = "list" /\ Len(arg.l) # length_) =>
              (exc = "ValueError" /\ value_ = old)
        /\ value_ # None_ =>
              /\ value_.t = "list"
              /\ Len(value_.l) = length_
              /\ \A i \in 1..Len(value_.l) : IsNumber(value_.l[i])

(***************************************************************************)
(* C10: a BooleanParameter that is set holds exactly True or False, in     *)
(* every state reachable by construction with any default and any          *)
(* assignments.                                                            *)
(***************************************************************************)
C10_HoldsBoolean ==
    (cls = "BooleanParameter" /\ value_ # None_) => value_.t = "bool"

(***************************************************************************)
(* Python's string formatting, as the drivers use it to build commands.    *)
(***************************************************************************)
RECURSIVE Pow10(_)
Pow10(k) == IF k = 0 THEN 1 ELSE 10 * Pow10(k - 1)

RECURSIVE NumDigits(_)
NumDigits(u) == IF u < 10 THEN 1 ELSE 1 + NumDigits(u \div 10)

\* The last `width` decimal digits of n, with leading zeros.
RECURSIVE Pad(_, _)
Pad(n, width) ==
    IF width = 0 THEN "" ELSE Pad(n \div 10, width - 1) \o ToString(n % 10)

Abs(n) == IF n < 0 THEN -n ELSE n

\* A float of the set-point properties, given in units of 1e-7.
PyDec(u) == [t |-> "dec", n |-> u, s |-> "", l |-> <<>>]

IsReal(v) == IsNumber(v) \/ v.t = "dec"

\* The value of a finite number in units of 1e-7.
Units7(v) ==
    CASE v.t = "dec"   -> v.n
      [] v.t = "float" -> v.n * 5000000
      [] OTHER         -> v.n * 10000000

Formatted(x) == [ok |-> TRUE,  s |-> x,  exc |-> ""]
FormatError(e) == [ok |-> FALSE, s |-> "", exc |-> e]

\* str(v) of a float given in halves: "50.0", "0.5"
StrHalves(h) ==
    (IF h < 0 THEN "-" ELSE "") \o ToString(Abs(h) \div 2)
        \o (IF Abs(h) % 2 = 1 THEN ".5" ELSE ".0")

\* "%s" % v: str(v)
fmt_s(v) ==
    CASE v.t = "none"  -> Formatted("None")
      [] v.t = "bool"  -> Formatted(IF v.n = 1 THEN "True" ELSE "False")
      [] v.t = "int"   -> Formatted(ToString(v.n))
      [] v.t = "float" -> Formatted(IF v.s # "" THEN v.s ELSE StrHalves(v.n))
      [] v.t = "str"   -> Formatted(v.s)
      [] OTHER         -> Formatted("[...]")

\* "%d" % v: the integer part of a number; a number is required
fmt_d(v) ==
    IF IsNumber(v)
    THEN LET c == int_(v)
         IN  IF c.ok THEN Formatted(ToString(c.v.n)) ELSE FormatError(c.exc)
    ELSE FormatError("TypeError")

\* "%.<places>f" % v for a number given in halves
fmt_f(v, places) ==
    IF ~IsNumber(v) THEN FormatError("TypeError")
    ELSE IF IsNaN(v) \/ IsInf(v) THEN Formatted(v.s)
    ELSE LET h == Halves(v)
         IN  Formatted((IF h < 0 THEN "-" ELSE "") \o ToString(Abs(h) \div 2)
                 \o "." \o (IF Abs(h) % 2 = 1 THEN "5" ELSE "0")
                 \o Pad(0, places - 1))

\* The 7 significant digits "%e" keeps of u > 0 (in units of 1e-7), and the
\* decimal exponent: rounding to nearest, ties to even.
Round7(u) ==
    LET d == NumDigits(u)
        k == d - 7
        q == IF k > 0 THEN u \div Pow10(k) ELSE u * Pow10(-k)
        r == IF k > 0 THEN u % Pow10(k) ELSE 0
        half == IF k > 0 THEN 5 * Pow10(k - 1) ELSE 1
        m == IF r > half \/ (r = half /\ q % 2 = 1) THEN q + 1 ELSE q
    IN  IF m = Pow10(7) THEN [m |-> Pow10(6), e |-> d - 7]
        ELSE [m |-> m, e |-> d - 8]

\* "%e" % v
fmt_e(v) ==
    IF ~IsReal(v) THEN FormatError("TypeError")
    ELSE IF IsNaN(v) \/ IsInf(v) THEN Formatted(v.s)
    ELSE LET u == Units7(v)
             x == IF u = 0 THEN [m |-> 0, e |-> 0] ELSE Round7(Abs(u))
         IN  Formatted((IF u < 0 THEN "-" ELSE "")
                 \o ToString(x.m \div Pow10(6)) \o "." \o Pad(x.m, 6)
                 \o "e" \o (IF x.e < 0 THEN "-" ELSE "+") \o Pad(Abs(x.e), 2))

\* set_command % value, the command given as the text before the
\* conversion, the conversion and the text after it
Format(cmd, v) ==
    LET f == CASE cmd.fmt = "d" -> fmt_d(v)
               [] cmd.fmt = "s" -> fmt_s(v)
               [] cmd.fmt = "e" -> fmt_e(v)
               [] cmd.fmt = ".1f" -> fmt_f(v, 1)
               [] cmd.fmt = ".2f" -> fmt_f(v, 2)
    IN  IF f.ok THEN Formatted(cmd.head \o f.s \o cmd.tail) ELSE f

(***************************************************************************)
(* Instrument.measurement, Instrument.control and Instrument.setting, and *)
(* the validators: what a declared property does when read or assigned.    *)
(***************************************************************************)
Cmd(head, fmt, tail) == [head |-> head, fmt |-> fmt, tail |-> tail]
NoCmd == Cmd("", "s", "")

ValuesList(items) == [kind |-> "list", items |-> items]
ValuesDict(items) == [kind |-> "dict", items |-> items]
NoValues == ValuesList(<<>>)
Pair(k, v) == [k |-> k, v |-> v]

measurement(name, get) ==
    [name |-> name, kind |-> "measurement", get |-> get, set |-> NoCmd,
     validator |-> "none", values |-> NoValues, map_values |-> FALSE,
     cast |-> "float"]
control(name, get, set, validator, vals, map_values, cast) ==
    [name |-> name, kind |-> "control", get |-> get, set |-> set,
     validator |-> validator, values |-> vals, map_values |-> map_values,
     cast |-> cast]
setting(name, set, validator, vals, map_values) ==
    [name |-> name, kind |-> "setting", get |-> "", set |-> set,
     validator |-> validator, values |-> vals, map_values |-> map_values,
     cast |-> "float"]

\* A list cannot be the key of a dict
Hashable(v) == v.t # "list"

\* "value in values" and "values[value]" of a dict written as a literal:
\* keys compare with ==, and of two equal keys the later one's value stays.
DictHas(d, key) == \E i \in 1..Len(d.items) : PyEq(key, d.items[i].k)
DictGet(d, key) ==
    LET hits == {i \in 1..Len(d.items) : PyEq(key, d.items[i].k)}
        i == CHOOSE x \in hits : \A y \in hits : y <= x
    IN  d.items[i].v

\* "value in values" and "values.index(value)" of a list
ListHas(d, x) == \E i \in 1..Len(d.items) : PyEq(x, d.items[i])
ListIndex(d, x) ==
    LET hits == {i \in 1..Len(d.items) : PyEq(x, d.items[i])}
    IN  (CHOOSE i \in hits : \A y \in hits : i <= y) - 1

\* validators.strict_discrete_set(value, values)
strict_discrete_set(value, vals) ==
    IF vals.kind = "dict"
    THEN IF ~Hashable(value) THEN Raise("TypeError")
         ELSE IF DictHas(vals, value) THEN Ok(value) ELSE Raise("ValueError")
    ELSE IF ListHas(vals, value) THEN Ok(value) ELSE Raise("ValueError")

\* validators.strict_range(value, values):
\* min(values) <= value <= max(values).  Comparing a number with None, a
\* string or a list raises TypeError in Python 3 and is false in Python 2.
strict_range(value, vals, pyv) ==
    IF ~IsReal(value)
    THEN Raise(IF pyv = 3 THEN "TypeError" ELSE "ValueError")
    ELSE IF IsNaN(value) \/ IsInf(value) THEN Raise("ValueError")
    ELSE LET lo == Units7(vals.items[1])
             hi == Units7(vals.items[2])
             u  == Units7(value)
         IN  IF (IF lo < hi THEN lo ELSE hi) <= u
                /\ u <= (IF lo < hi THEN hi ELSE lo)
             THEN Ok(value) ELSE Raise("ValueError")

Validate(p, value, pyv) ==
    CASE p.validator = "strict_discrete_set" ->
            strict_discrete_set(value, p.values)
      [] p.validator = "strict_range" -> strict_range(value, p.values, pyv)
      [] OTHER -> Ok(value)

\* fset: "if map_values": values[value] of a dict, values.index(value) of a
\* list
MapValue(vals, value) ==
    IF vals.kind = "dict"
    THEN IF ~Hashable(value) THEN Raise("TypeError")
         ELSE IF DictHas(vals, value) THEN Ok(DictGet(vals, value))
         ELSE Raise("KeyError")
    ELSE IF ListHas(vals, value) THEN Ok(PyInt(ListIndex(vals, value)))
         ELSE Raise("ValueError")

\* fset of a control or a setting: validate, map, format; the commands to
\* write (none when an exception is raised first)
property_set(p, pyv, value) ==
    LET v == Validate(p, value, pyv)
        m == IF v.ok /\ p.map_values THEN MapValue(p.values, v.v) ELSE v
        f == IF m.ok THEN Format(p.set, m.v) ELSE FormatError(m.exc)
    IN  IF f.ok THEN [exc |-> "", cmds |-> <<f.s>>]
        ELSE [exc |-> f.exc, cmds |-> <<>>]

\* The replies the instrument gives to a query, as the fields of the line
Replies == {<<"0">>, <<"1">>}

\* Adapter.values: cast(field) of the fields of the reply
CastReply(reply, cast) ==
    [i \in 1..Len(reply) |->
        IF cast = "bool" THEN PyBool(reply[i] # "")
        ELSE PyFloat(IF reply[i] = "1" THEN 2 ELSE 0)]

(***************************************************************************)
(* The properties the driver classes declare.                              *)
(***************************************************************************)
ONOFF_MAPPING ==
    ValuesDict(<<Pair(PyBool(TRUE), PyStr("ON")), Pair(PyBool(FALSE), PyStr("OFF")),
                 Pair(PyInt(1), PyStr("ON")), Pair(PyInt(0), PyStr("OFF"))>>)
IMP_MAPPING ==
    ValuesDict(<<Pair(PyInt(50), PyStr("50")), Pair(PyFloat(100), PyStr("50")),
                 Pair(PyFloat(2000000), PyStr("1M")),
                 Pair(PyInt(1000000), PyStr("1M")),
                 Pair(PyFloat(2000000), PyStr("1M"))>>)
OnlyTrueOff == ValuesDict(<<Pair(PyBool(TRUE), PyStr("OFF"))>>)
Inputs123 == ValuesList(<<PyInt(1), PyInt(2), PyInt(3)>>)

\* ---- HP66312A ----
HP66312A_output_s ==
    control("output", "OUTP?", Cmd("OUTP ", "s", ""), "strict_discrete_set",
            ValuesList(<<PyBool(TRUE), PyBool(FALSE)>>), FALSE, "bool")
HP66312A_output ==
    control("output", "OUTP?", Cmd("OUTP ", "d", ""), "strict_discrete_set",
            ValuesList(<<PyBool(TRUE), PyBool(FALSE)>>), FALSE, "bool")
HP66312A_sour_voltage_unchecked ==
    control("sour_voltage", "SOUR:VOLT?", Cmd("SOUR:VOLT ", "e", ""),
            "none", ValuesList(<<PyDec(0), PyDec(204750000)>>),
            FALSE, "float")
HP66312A_sour_voltage ==
    control("sour_voltage", "SOUR:VOLT?", Cmd("SOUR:VOLT ", "e", ""),
            "strict_range", ValuesList(<<PyDec(0), PyDec(204750000)>>),
            FALSE, "float")
HP66312A_sour_current ==
    control("sour_current", "SOUR:CURR?", Cmd("SOUR:CURR ", "e", ""),
            "strict_range", ValuesList(<<PyDec(0), PyDec(20475000)>>),
            FALSE, "float")
HP66312A_properties ==
    { measurement("id", "*IDN?"),
      measurement("meas_voltage_dc", "MEAS:VOLT?"),
      measurement("meas_voltage_high", "MEAS:VOLT:HIGH?"),
      measurement("meas_voltage_low", "MEAS:VOLT:LOW?"),
      measurement("meas_voltage_max", "MEAS:VOLT:MAX?"),
      measurement("meas_voltage_min", "MEAS:VOLT:MIN?"),
      measurement("meas_voltage_acdc", "MEAS:VOLT:ACDC?"),
      measurement("meas_current_dc", "MEAS:CURR?"),
      measurement("meas_current_high", "MEAS:CURR:HIGH?"),
      measurement("meas_current_low", "MEAS:CURR:LOW?"),
      measurement("meas_current_max", "MEAS:CURR:MAX?"),
      measurement("meas_current_min", "MEAS:CURR:MIN?"),
      measurement("meas_current_acdc", "MEAS:CURR:ACDC?"),
      HP66312A_output, HP66312A_sour_voltage, HP66312A_sour_current }

\* ---- ACS400 and Agilent34401A: the same measurements ----
MultimeterMeasurements ==
    { measurement("id", "*IDN?"),
      measurement("voltage_dc", "MEAS:VOLT:DC? DEF,DEF"),
      measurement("voltage_ac", "MEAS:VOLT:AC? DEF,DEF"),
      measurement("current_dc", "MEAS:CURR:DC? DEF,DEF"),
      measurement("current_ac", "MEAS:CURR:AC? DEF,DEF"),
      measurement("resistance", "MEAS:RES? DEF,DEF"),
      measurement("resistance_4w", "MEAS:FRES? DEF,DEF") }
Agilent34401A_display_unmapped ==
    setting("display", Cmd("DISP:ENABLE ", "s", ""), "strict_discrete_set",
            ONOFF_MAPPING, FALSE)
Agilent34401A_display ==
    setting("display", Cmd("DISP:ENABLE ", "s", ""), "strict_discrete_set",
            ONOFF_MAPPING, TRUE)
Agilent34401A_properties == MultimeterMeasurements \cup {Agilent34401A_display}

\* ---- Agilent53131A ----
Agilent53131A_display ==
    setting("display", Cmd("DISP:ENABLE ", "s", ""), "strict_discrete_set",
            ONOFF_MAPPING, TRUE)
Agilent53131A_display_menu_onoff ==
    setting("display_menu_off", Cmd(":DISP:MENU ", "s", ""), "none",
            ONOFF_MAPPING, TRUE)
Agilent53131A_display_menu_off ==
    setting("display_menu_off", Cmd(":DISP:MENU ", "s", ""), "none",
            OnlyTrueOff, TRUE)
Agilent53131A_hcopy ==
    control("hcopy", ":HCOP:CONT?", Cmd(":HCOP:CONT ", "d", ""),
            "strict_discrete_set", ONOFF_MAPPING, FALSE, "bool")
Agilent53131A_reference_autocheck_off ==
    setting("reference_autocheck_off", Cmd(":ROSC:EXT:CHECK ", "s", ""),
            "none", OnlyTrueOff, TRUE)
Agilent53131A_cont_measurements ==
    control("cont_measurements", ":INIT:CONT?", Cmd(":INIT:CONT ", "d", ""),
            "strict_discrete_set", ONOFF_MAPPING, FALSE, "bool")
Agilent53131A_properties ==
    { measurement("id", "*IDN?"),
      measurement("options", "*OPT?"),
      measurement("val", ":READ?"),
      measurement("fetch_frequency", "FETCH:FREQ?"),
      measurement("fetch_period", "FETCH:PERIOD?"),
      Agilent53131A_display,
      Agilent53131A_display_menu_off,
      Agilent53131A_hcopy,
      setting("reference", Cmd(":ROSC:SOURCE ", "s", ""),
              "strict_discrete_set",
              ValuesList(<<PyStr("INT"), PyStr("EXT")>>), FALSE),
      Agilent53131A_reference_autocheck_off,
      setting("cal_interpolator_auto", Cmd(":DIAG:CAL:INT:AUTO ", "s", ""),
              "strict_discrete_set", ONOFF_MAPPING, TRUE),
      setting("format", Cmd(":FORM ", "s", ""), "strict_discrete_set",
              ValuesList(<<PyStr("ASCII"), PyStr("REAL")>>), FALSE),
      setting("measure_freq", Cmd(":FREQ ", "d", ""), "strict_discrete_set",
              Inputs123, FALSE),
      Agilent53131A_cont_measurements,
      setting("func_frequency", Cmd(":FUNC 'FREQ ", "d", "'"),
              "strict_discrete_set", Inputs123, FALSE),
      setting("func_period", Cmd(":FUNC 'PER ", "d", "'"),
              "strict_discrete_set", Inputs123, FALSE) }

\* ---- Channel (ch1, ch2) ----
Channel_impedance ==
    control("impedance", "IMP?", Cmd("IMP ", "s", "OHM"),
            "strict_discrete_set", IMP_MAPPING, FALSE, "float")
Channel_lpfilter ==
    control("lpfilter", "FILT?", Cmd("FILT ", "d", ""),
            "strict_discrete_set", ONOFF_MAPPING, FALSE, "bool")
Channel_properties ==
    { Channel_impedance,
      Channel_lpfilter,
      measurement("lpfilter_freq", "FILT:LPAS:FREQ?"),
      control("coupling", "COUP?", Cmd("COUP ", "s", ""),
              "strict_discrete_set",
              ValuesList(<<PyStr("AC"), PyStr("DC")>>), FALSE, "float"),
      control("attenuation", "ATT?", Cmd("ATT ", "d", ""),
              "strict_discrete_set",
              ValuesList(<<PyInt(1), PyInt(10)>>), FALSE, "float") }

\* ---- Channel3 (ch3): coupling is a plain class attribute ----
Channel3_coupling_query ==
    measurement("coupling", "COUP?")
Channel3_coupling ==
    [name |-> "coupling", kind |-> "attribute", get |-> "AC", set |-> NoCmd,
     validator |-> "none", values |-> NoValues, map_values |-> FALSE,
     cast |-> "float"]
Channel3_properties ==
    { measurement("impedance", "IMP?"), Channel3_coupling }

Properties(c) ==
    CASE c = "HP66312A"      -> HP66312A_properties
      [] c = "ACS400"        -> MultimeterMeasurements
      [] c = "Agilent34401A" -> Agilent34401A_properties
      [] c = "Agilent53131A" -> Agilent53131A_properties
      [] c = "Channel"       -> Channel_properties
      [] c = "Channel3"      -> Channel3_properties

(***************************************************************************)
(* What an operation does on the bus: a list of steps, an exception (if    *)
(* one ends it) and what it returns.                                       *)
(***************************************************************************)
W(cmd)         == [op |-> "write", cmd |-> cmd, data |-> <<>>]
Ask(cmd)       == [op |-> "ask", cmd |-> cmd, data |-> <<>>]
R              == [op |-> "read", cmd |-> "", data |-> <<>>]
ReadRaw        == [op |-> "read_raw", cmd |-> "", data |-> <<>>]
WriteRaw(message) == [op |-> "write_raw", cmd |-> "", data |-> message]

Run(steps, e, returns) == [steps |-> steps, exc |-> e, ret |-> returns]

\* adapter.write_raw(message): the bytes of the message, put on the bus as
\* they are
BusWriteRaw(message) == [op |-> "write_raw", cmd |-> "", reply |-> message]

\* The binary data of the calibration, as bytes: also a block "#14....\n"
\* as the instrument sends it, with a data byte that equals the newline
RawData == {<<>>, <<0, 255>>, <<35, 49, 52, 0, 10, 255, 8, 10>>}

\* s.encode('utf-8') of the text the driver encodes
encode_utf8(s) ==
    CASE s = ":CAL:DATA " -> <<58, 67, 65, 76, 58, 68, 65, 84, 65, 32>>

\* One step on the bus; reply is what the instrument answers to a read
ExecStep(st, q, log, reply) ==
    CASE st.op = "write" -> write(st.cmd, q, log)
      [] st.op = "ask" ->
            LET w == write(st.cmd, q, log)
            IN  [q |-> w.q, log |-> Append(w.log, BusRead(reply))]
      [] st.op = "write_raw" ->
            [q |-> q, log |-> Append(log, BusWriteRaw(st.data))]
      [] OTHER -> [q |-> q, log |-> Append(log, BusRead(reply))]

RECURSIVE Exec(_, _, _, _)
Exec(steps, q, log, reply) ==
    IF steps = <<>> THEN [q |-> q, log |-> log]
    ELSE LET x == ExecStep(Head(steps), q, log, reply)
         IN  Exec(Tail(steps), x.q, x.log, reply)

\* The answers the instrument may give during an operation
RepliesTo(steps) ==
    LET does(ops) == \E i \in 1..Len(steps) : steps[i].op \in ops
    IN  IF does({"read_raw"}) THEN RawData
        ELSE IF does({"ask", "read"}) THEN Replies ELSE {<<>>}

\* What the operation returns
Returned(run, reply) ==
    CASE run.exc # ""        -> <<>>
      [] run.ret = "float"   -> CastReply(reply, "float")
      [] run.ret = "bool"    -> CastReply(reply, "bool")
      [] run.ret = "raw"     -> reply
      [] run.ret = "AC"      -> <<PyStr("AC")>>
      [] OTHER               -> <<>>

(***************************************************************************)
(* The channels of the counter.                                            *)
(***************************************************************************)
ChannelNumber(t) ==
    CASE t = "ch1" -> 1
      [] t = "ch2" -> 2
      [] t = "ch3" -> 3

\* ":INP%d:%s" % (self.number, command)
Channel_command_fixed(number, command) == ":INP1:" \o command
Channel_command(number, command) ==
    ":INP" \o ToString(number) \o ":" \o command
Channel3_command(number, command) ==
    ":INP" \o ToString(number) \o ":" \o command

Channel_values(number, command) ==
    Run(<<Ask(Channel_command(number, command))>>, "", "float")
Channel_ask(number, command) ==
    Run(<<Ask(Channel_command(number, command))>>, "", "none")
Channel_write(number, command) ==
    Run(<<W(Channel_command(number, command))>>, "", "none")
Channel_read(number) == Run(<<R>>, "", "none")

Channel3_values(number, command) ==
    Run(<<Ask(Channel3_command(number, command))>>, "", "float")
Channel3_ask(number, command) ==
    Run(<<Ask(Channel3_command(number, command))>>, "", "none")
Channel3_write(number, command) ==
    Run(<<W(Channel3_command(number, command))>>, "", "none")
Channel3_read(number) == Run(<<R>>, "", "none")

\* The objects a driver offers, and the class of each
AllDrivers == Drivers \cup {"Agilent34401A"}
Objects(d) ==
    IF d = "Agilent53131A" THEN {"meter", "ch1", "ch2", "ch3"} ELSE {"meter"}
ClassOf(d, t) ==
    CASE t = "meter" -> d
      [] t = "ch3"   -> "Channel3"
      [] OTHER       -> "Channel"

\* self.write(command) and self.values(command) of the object a property
\* is declared on
ObjectWrite(t, command) ==
    CASE t = "meter" -> W(command)
      [] t = "ch3"   -> Channel3_write(ChannelNumber(t), command).steps[1]
      [] OTHER       -> Channel_write(ChannelNumber(t), command).steps[1]
ObjectValues(t, command) ==
    CASE t = "meter" -> Ask(command)
      [] t = "ch3"   -> Channel3_values(ChannelNumber(t), command).steps[1]
      [] OTHER       -> Channel_values(ChannelNumber(t), command).steps[1]

\* Assigning to a control or a setting of object t
SetRun(t, p, pyv, value) ==
    LET x == property_set(p, pyv, value)
    IN  Run([i \in 1..Len(x.cmds) |-> ObjectWrite(t, x.cmds[i])],
            x.exc, "none")

\* Reading a property of object t
GetRun(t, p) ==
    CASE p.kind = "setting"   -> Run(<<>>, "LookupError", "none")
      [] p.kind = "attribute" -> Run(<<>>, "", p.get)
      [] OTHER -> Run(<<ObjectValues(t, p.get)>>, "", p.cast)

(***************************************************************************)
(* The methods of the drivers.                                             *)
(***************************************************************************)
\* self.write(fmt % value) after the writes before it
WriteFormatted(before, cmd, value) ==
    LET f == Format(cmd, value)
    IN  IF f.ok THEN Run(Append(before, W(f.s)), "", "none")
        ELSE Run(before, f.exc, "none")

\* s.lstrip('0') of a command: every command it is applied to starts
\* with ":", so no character is removed
lstrip_zero(run) == run

ACS400_display_text(text) ==
    WriteFormatted(<<>>, Cmd("DISP:TEXT '", "s", "'"), text)
ACS400_display_text_clear == Run(<<W("DISP:TEXT:CLE")>>, "", "none")
Agilent34401A_display_text(text) ==
    WriteFormatted(<<>>, Cmd("DISP:TEXT '", "s", "'"), text)
Agilent34401A_display_textClear == Run(<<W("DISP:TEXT:CLE")>>, "", "none")

\* "if 0 < channel <= 3" for an int
ChannelInRange(channel) == 0 < channel.n /\ channel.n <= 3

Agilent53131A_measure_freq_simple(freq, resolution, channel) ==
    IF ChannelInRange(channel)
    THEN Run(<<W(":MEASURE:FREQ? " \o fmt_s(freq).s \o "Hz "
                  \o fmt_s(resolution).s \o ", (@" \o fmt_s(channel).s
                  \o ")")>>, "", "none")
    ELSE Run(<<>>, "", "none")
Agilent53131A_configure_freq(channel) ==
    IF ChannelInRange(channel)
    THEN Run(<<W(":CONF:FREQ (@" \o fmt_s(channel).s \o ")")>>, "", "none")
    ELSE Run(<<>>, "", "none")
Agilent53131A_freq_exp_set(frequency) ==
    Run(<<W(":FREQ:EXP1 " \o fmt_s(frequency).s)>>, "", "none")
Agilent53131A_measure_t_interval ==
    Run(<<W("MEAS:TINT? (@1),(@2)")>>, "", "none")
Agilent53131A_arming_auto ==
    Run(<<W(":FREQ:ARM:STAR:SOUR IMM"), W(":FREQ:ARM:STOP:SOUR TIM")>>,
        "", "none")
Agilent53131A_arming_time(time) ==
    lstrip_zero(WriteFormatted(
        <<W(":FREQ:ARM:STAR:SOUR IMM"), W(":FREQ:ARM:STOP:SOUR TIM")>>,
        Cmd(":FREQ:ARM:STOP:TIM ", ".1f", ""), time))
Agilent53131A_postproc_disable ==
    Run(<<W(":CALC:MATH:STATE OFF"), W(":CALC2:LIM:STATE OFF"),
          W(":CALC3:AVER:STATE OFF")>>, "", "none")
Agilent53131A_cal_read_unasked == Run(<<ReadRaw>>, "", "raw")
Agilent53131A_cal_read == Run(<<W(":CAL:DATA?"), ReadRaw>>, "", "raw")
Agilent53131A_cal_write_terminated(data) ==
    Run(<<WriteRaw(encode_utf8(":CAL:DATA ") \o data \o <<10>>)>>, "", "none")
Agilent53131A_cal_write(data) ==
    Run(<<WriteRaw(encode_utf8(":CAL:DATA ") \o data)>>, "", "none")
Agilent53131A_trigger_level_set(level) ==
    lstrip_zero(WriteFormatted(<<>>, Cmd(":EVENT1:LEVEL ", ".2f", ""), level))
Agilent53131A_measure_start == Run(<<W("INIT")>>, "", "none")
Agilent53131A_trigger_set_fetc == Run(<<W("*DDT #15FETC?")>>, "", "none")

\* The arguments the methods are called with
Texts == {PyStr("HELLO"), PyInt(1)}
ChannelArgs == {PyInt(0), PyInt(1), PyInt(3), PyInt(4)}
Frequencies == {PyInt(10), PyFloat(3)}
Times == {PyInt(1), PyFloat(1), PyFloat(201), PyStr("1")}
Levels == {PyInt(0), PyFloat(-3), PyFloat(1), None_}
UserCommands == {"IMP?", "COUP DC"}

Call(name, g, run) == [name |-> name, given |-> g, run |-> run]

\* The calls of the methods of class c on the object with the given number
Calls(c, number) ==
    CASE c = "ACS400" ->
            {Call("display_text", x, ACS400_display_text(x)) : x \in Texts}
            \cup {Call("display_text_clear", None_, ACS400_display_text_clear)}
      [] c = "Agilent34401A" ->
            {Call("display_text", x, Agilent34401A_display_text(x)) :
                x \in Texts}
            \cup {Call("display_textClear", None_,
                       Agilent34401A_display_textClear)}
      [] c = "Agilent53131A" ->
            {Call("measure_freq_simple", PyList(<<f, PyInt(1), ch>>),
                  Agilent53131A_measure_freq_simple(f, PyInt(1), ch)) :
                f \in Frequencies, ch \in ChannelArgs}
            \cup {Call("configure_freq", ch, Agilent53131A_configure_freq(ch)) :
                    ch \in ChannelArgs}
            \cup {Call("freq_exp_set", f, Agilent53131A_freq_exp_set(f)) :
                    f \in Frequencies}
            \cup {Call("arming_time", x, Agilent53131A_arming_time(x)) :
                    x \in Times}
            \cup {Call("trigger_level_set", x,
                       Agilent53131A_trigger_level_set(x)) : x \in Levels}
            \cup {Call("cal_write", PyList(x), Agilent53131A_cal_write(x)) :
                    x \in RawData}
            \cup {Call("measure_t_interval", None_,
                       Agilent53131A_measure_t_interval),
                  Call("arming_auto", None_, Agilent53131A_arming_auto),
                  Call("postproc_disable", None_,
                       Agilent53131A_postproc_disable),
                  Call("cal_read", None_, Agilent53131A_cal_read),
                  Call("measure_start", None_, Agilent53131A_measure_start),
                  Call("trigger_set_fetc", None_,
                       Agilent53131A_trigger_set_fetc)}
      [] c = "Channel" ->
            {Call("values", PyStr(x), Channel_values(number, x)) :
                x \in UserCommands}
            \cup {Call("ask", PyStr(x), Channel_ask(number, x)) :
                    x \in UserCommands}
            \cup {Call("write", PyStr(x), Channel_write(number, x)) :
                    x \in UserCommands}
            \cup {Call("read", None_, Channel_read(number))}
      [] c = "Channel3" ->
            {Call("values", PyStr(x), Channel3_values(number, x)) :
                x \in UserCommands}
            \cup {Call("ask", PyStr(x), Channel3_ask(number, x)) :
                    x \in UserCommands}
            \cup {Call("write", PyStr(x), Channel3_write(number, x)) :
                    x \in UserCommands}
            \cup {Call("read", None_, Channel3_read(number))}
      [] OTHER -> {}

(***************************************************************************)
(* DriverSpec: the properties and methods of the four drivers and of the   *)
(* counter's channels.                                                     *)
(***************************************************************************)
\* The values assigned to the properties
CommonInputs ==
    { PyBool(TRUE), PyBool(FALSE), PyInt(0), PyInt(1), PyInt(2),
      PyFloat(0), PyFloat(2), PyFloat(1), PyStr("ON"), PyStr("OFF"),
      PyStr("1"), None_, NaN, PyList(<<PyBool(TRUE)>>) }
ValueItems(vals) ==
    IF vals.kind = "dict"
    THEN {vals.items[i].k : i \in 1..Len(vals.items)}
         \cup {vals.items[i].v : i \in 1..Len(vals.items)}
    ELSE {vals.items[i] : i \in 1..Len(vals.items)}
RangeInputs(vals) ==
    LET lo == vals.items[1].n
        hi == vals.items[2].n
    IN  { PyDec(lo - 1), PyDec(lo), PyDec(lo + 1), PyDec(hi \div 2),
          PyDec(hi - 1), PyDec(hi), PyDec(hi + 1), PyDec(-10000000),
          PyInt(0), PyInt(1), PyInt(2), PyInt(3), PyInt(20), PyInt(21),
          PyInt(-1), PyFloat(1), PyFloat(3), PyFloat(41), PyBool(TRUE),
          NaN, Inf, None_, PyStr("5"), PyList(<<PyInt(1)>>) }
SetInputs(p) ==
    IF p.validator = "strict_range" THEN RangeInputs(p.values)
    ELSE CommonInputs \cup ValueItems(p.values)

\* The error queue at the start: empty, or holding one error
DriverQueues == {<<>>} \cup {<<e>> : e \in ErrorTable}

DriverInit ==
    /\ inst \in AllDrivers
    /\ errq \in DriverQueues
    /\ bus = <<>>
    /\ ret = <<>>
    /\ last = "init"
    /\ errq0 = <<>>
    /\ prev = "init"
    /\ resetq = <<>>
    /\ target = "meter" /\ member = "" /\ given = None_ /\ raised = ""
    /\ calread = <<>>
    /\ py \in {2, 3}
    /\ cls = "Parameter" /\ value_ = None_ /\ default = None_
    /\ minimum = None_ /\ maximum = None_ /\ length_ = 0 /\ choices = None_
    /\ plast = "init" /\ arg = None_ /\ old = None_ /\ exc = "" /\ msg = ""
    /\ got = None_

\* One operation on object t: its steps on the bus, then its result
Operate(t, op, name, g, run) ==
    \E reply \in RepliesTo(run.steps) :
        LET x == Exec(run.steps, errq, <<>>, reply)
        IN  /\ errq' = x.q
            /\ bus' = x.log
            /\ ret' = Returned(run, reply)
            /\ raised' = run.exc
            /\ target' = t /\ member' = name /\ given' = g
            /\ last' = op
            /\ prev' = last
            /\ errq0' = <<>> /\ resetq' = <<>>
            /\ calread' = CalReadBefore
            /\ UNCHANGED inst
            /\ UNCHANGED pvars

\* obj.<property> = value
PropertySet ==
    \E t \in Objects(inst) :
        \E p \in Properties(ClassOf(inst, t)) :
            /\ p.kind \in {"control", "setting"}
            /\ \E v \in SetInputs(p) :
                  Operate(t, "set", p.name, v, SetRun(t, p, py, v))

\* obj.<property>
PropertyGet ==
    \E t \in Objects(inst) :
        \E p \in Properties(ClassOf(inst, t)) :
            Operate(t, "get", p.name, None_, GetRun(t, p))

\* obj.<method>(...)
MethodCall ==
    \E t \in Objects(inst) :
        \E c \in Calls(ClassOf(inst, t),
                       IF t = "meter" THEN 0 ELSE ChannelNumber(t)) :
            Operate(t, "call", c.name, c.given, c.run)

\* reset() and check_errors() of the drivers that define them
DriverReset == inst \in Drivers /\ reset
DriverCheckErrors == inst \in Drivers /\ check_errors

DriverNext ==
    \/ PropertySet
    \/ PropertyGet
    \/ MethodCall
    \/ DriverReset
    \/ DriverCheckErrors

DriverSpec == DriverInit /\ [][DriverNext]_vars

(***************************************************************************)
(* What the claims about the drivers' commands expect.                     *)
(***************************************************************************)
Channels == {"ch1", "ch2", "ch3"}

\* The text that addresses input n of the counter
InputPrefix(t) ==
    CASE t = "ch1" -> ":INP1:"
      [] t = "ch2" -> ":INP2:"
      [] t = "ch3" -> ":INP3:"

\* The commands of the properties and calls of the channel classes, before
\* the channel puts its prefix in front
ChannelBodies ==
    UNION { {p.get : p \in {x \in Properties(c) : x.kind # "attribute"}}
            \cup UNION { {Format(p.set, v).s :
                             v \in {x \in SetInputs(p) : Format(p.set, x).ok}}
                          : p \in {x \in Properties(c) : x.kind = "control"} }
            : c \in {"Channel", "Channel3"} }
    \cup UserCommands

Addresses(cmd, t) == \E b \in ChannelBodies : cmd = InputPrefix(t) \o b

\* The commands written during the operation
Written == {bus[i].cmd : i \in {k \in 1..Len(bus) : bus[k].op = "write"}}

\* The value is true or 1 / false or 0, as Python compares them
IsOne(v)  == IsNumber(v) /\ PyEq(v, PyInt(1))
IsZero(v) == IsNumber(v) /\ PyEq(v, PyInt(0))

(***************************************************************************)
(* C11: every command an operation of the channel with number n writes is  *)
(* ":INP<n>:" followed by the command of the property or of the call, and  *)
(* addresses no other input: a read of a property writes ":INP<n>:" and    *)
(* its query, values/ask/write write ":INP<n>:" and the command given.     *)
(***************************************************************************)
C11_ChannelAddressesOwnInput ==
    target \in Channels =>
        /\ \A cmd \in Written :
              /\ Addresses(cmd, target)
              /\ \A o \in Channels \ {target} : ~Addresses(cmd, o)
        /\ (last = "call" /\ member \in {"values", "ask", "write"}) =>
              Written = {InputPrefix(target) \o given.s}
        /\ (last = "get" /\ bus # <<>>) =>
              \E p \in Properties(ClassOf(inst, target)) :
                  p.name = member /\ Written = {InputPrefix(target) \o p.get}

C11_Witness ==
    /\ target = "ch2"
    /\ last = "set"
    /\ member = "coupling"
    /\ bus = <<BusWrite(":INP2:COUP DC")>>

(***************************************************************************)
(* C12: assigning to the impedance of channel n: 50 writes                 *)
(* ":INP<n>:IMP 50OHM", 1000000 writes ":INP<n>:IMP 1MOHM", and a value    *)
(* equal to neither raises and writes nothing.                             *)
(***************************************************************************)
C12_ImpedanceCommands ==
    (target \in {"ch1", "ch2"} /\ last = "set" /\ member = "impedance") =>
        /\ given = PyInt(50) =>
              /\ raised = ""
              /\ bus = <<BusWrite(InputPrefix(target) \o "IMP 50OHM")>>
        /\ given = PyInt(1000000) =>
              /\ raised = ""
              /\ bus = <<BusWrite(InputPrefix(target) \o "IMP 1MOHM")>>
        /\ ~(IsNumber(given)
             /\ (PyEq(given, PyInt(50)) \/ PyEq(given, PyInt(1000000)))) =>
              /\ raised # ""
              /\ bus = <<>>

(***************************************************************************)
(* C13: reading the coupling of channel 3 returns "AC" and sends no        *)
(* command, whatever was done before.                                      *)
(***************************************************************************)
C13_Channel3CouplingAC ==
    (target = "ch3" /\ last = "get" /\ member = "coupling") =>
        /\ ret = <<PyStr("AC")>>
        /\ bus = <<>>
        /\ raised = ""

C13_Witness ==
    /\ target = "ch3" /\ last = "get" /\ member = "coupling"
    /\ prev = "call"
    /\ ret = <<PyStr("AC")>>

(***************************************************************************)
(* C14: an assignment to sour_voltage (sour_current) of the HP66312A with  *)
(* a number in [0.0, 20.475] ([0.0, 2.0475]) writes exactly one command,   *)
(* "SOUR:VOLT <v>" ("SOUR:CURR <v>"), and raises nothing; any other value  *)
(* raises and writes nothing.                                              *)
(***************************************************************************)
IsSetPoint == inst = "HP66312A" /\ last = "set"
                 /\ member \in {"sour_voltage", "sour_current"}
WithinSetPointRange ==
    /\ IsReal(given) /\ ~IsNaN(given) /\ ~IsInf(given)
    /\ 0 <= Units7(given)
    /\ Units7(given) <=
          (IF member = "sour_voltage" THEN 204750000 ELSE 20475000)
SetPointHead == IF member = "sour_voltage" THEN "SOUR:VOLT " ELSE "SOUR:CURR "

C14_SetPointRange ==
    IsSetPoint =>
        /\ WithinSetPointRange =>
              /\ raised = ""
              /\ bus = <<BusWrite(SetPointHead \o fmt_e(given).s)>>
        /\ ~WithinSetPointRange => (raised # "" /\ bus = <<>>)
        /\ given = PyDec(204750000) =>
              bus = <<BusWrite("SOUR:VOLT 2.047500e+01")>>
        /\ given = PyDec(20475000) =>
              bus = <<BusWrite(SetPointHead \o "2.047500e+00")>>
        /\ given = PyInt(2) =>
              bus = <<BusWrite(SetPointHead \o "2.000000e+00")>>
        /\ given = PyDec(0) =>
              bus = <<BusWrite(SetPointHead \o "0.000000e+00")>>

C14_Witness ==
    /\ IsSetPoint /\ member = "sour_voltage"
    /\ given = PyDec(204750000)
    /\ raised = ""
    /\ bus = <<BusWrite("SOUR:VOLT 2.047500e+01")>>

C14_RejectedReached ==
    /\ IsSetPoint /\ member = "sour_current"
    /\ given = PyDec(20475001)
    /\ raised = "ValueError"
    /\ bus = <<>>

(***************************************************************************)
(* C15: an assignment to output of the HP66312A writes "OUTP 1" for True   *)
(* or 1 and "OUTP 0" for False or 0; any other value raises and writes     *)
(* nothing.  The same holds of lpfilter of a channel (":INP<n>:FILT 1/0"), *)
(* and of hcopy (":HCOP:CONT 1/0") and cont_measurements                   *)
(* (":INIT:CONT 1/0") of the counter.                                      *)
(***************************************************************************)
IsSwitch ==
    /\ last = "set"
    /\ \/ inst = "HP66312A" /\ target = "meter" /\ member = "output"
       \/ target \in {"ch1", "ch2"} /\ member = "lpfilter"
       \/ inst = "Agilent53131A" /\ target = "meter"
             /\ member \in {"hcopy", "cont_measurements"}
SwitchHead ==
    CASE member = "output"   -> "OUTP "
      [] member = "lpfilter" -> InputPrefix(target) \o "FILT "
      [] member = "hcopy"    -> ":HCOP:CONT "
      [] OTHER               -> ":INIT:CONT "

C15_SwitchCommands ==
    IsSwitch =>
        /\ IsOne(given) =>
              (raised = "" /\ bus = <<BusWrite(SwitchHead \o "1")>>)
        /\ IsZero(given) =>
              (raised = "" /\ bus = <<BusWrite(SwitchHead \o "0")>>)
        /\ (~IsOne(given) /\ ~IsZero(given)) => (raised # "" /\ bus = <<>>)

C15_Witness ==
    /\ IsSwitch /\ member = "output"
    /\ given = PyBool(TRUE)
    /\ bus = <<BusWrite("OUTP 1")>>

C15_ChannelFilterReached ==
    /\ IsSwitch /\ target = "ch2"
    /\ given = PyBool(FALSE)
    /\ bus = <<BusWrite(":INP2:FILT 0")>>

(***************************************************************************)
(* C16: an assignment to display of the Agilent34401A or of the            *)
(* Agilent53131A writes "DISP:ENABLE ON" for True or 1 and                 *)
(* "DISP:ENABLE OFF" for False or 0; any other value raises and writes     *)
(* nothing.                                                                *)
(***************************************************************************)
IsDisplay ==
    /\ last = "set" /\ target = "meter" /\ member = "display"
    /\ inst \in {"Agilent34401A", "Agilent53131A"}

C16_DisplayCommands ==
    IsDisplay =>
        /\ IsOne(given) =>
              (raised = "" /\ bus = <<BusWrite("DISP:ENABLE ON")>>)
        /\ IsZero(given) =>
              (raised = "" /\ bus = <<BusWrite("DISP:ENABLE OFF")>>)
        /\ (~IsOne(given) /\ ~IsZero(given)) => (raised # "" /\ bus = <<>>)

C16_Witness ==
    /\ IsDisplay /\ inst = "Agilent34401A"
    /\ given = PyInt(0)
    /\ bus = <<BusWrite("DISP:ENABLE OFF")>>

(***************************************************************************)
(* C17: an assignment to display_menu_off (reference_autocheck_off) of the *)
(* counter writes ":DISP:MENU OFF" (":ROSC:EXT:CHECK OFF") for True or 1;  *)
(* any other value writes nothing; no assignment writes the command with   *)
(* ON.                                                                     *)
(***************************************************************************)
IsOffOnly ==
    /\ last = "set" /\ inst = "Agilent53131A" /\ target = "meter"
    /\ member \in {"display_menu_off", "reference_autocheck_off"}
OffOnlyHead ==
    IF member = "display_menu_off" THEN ":DISP:MENU " ELSE ":ROSC:EXT:CHECK "

C17_OffOnly ==
    IsOffOnly =>
        /\ IsOne(given) =>
              (raised = "" /\ bus = <<BusWrite(OffOnlyHead \o "OFF")>>)
        /\ ~IsOne(given) => bus = <<>>
        /\ (OffOnlyHead \o "ON") \notin Written

C17_Witness ==
    /\ IsOffOnly /\ member = "reference_autocheck_off"
    /\ given = PyInt(1)
    /\ bus = <<BusWrite(":ROSC:EXT:CHECK OFF")>>

C17_FalseSendsNothing ==
    /\ IsOffOnly /\ member = "display_menu_off"
    /\ given = PyBool(FALSE)
    /\ raised = "KeyError"
    /\ bus = <<>>

(***************************************************************************)
(* C18: the bus traffic of every operation of the drivers and of the       *)
(* channels is a sequence of exchanges, each one write or one write        *)
(* followed by one read: no read happens unless a write comes directly     *)
(* before it in the same operation.                                        *)
(***************************************************************************)
IsOperation == last \in {"set", "get", "call", "reset", "check_errors"}
IsBusWrite(e) == e.op \in {"write", "write_raw"}
Exchanges(log) ==
    \A i \in 1..Len(log) :
        \/ IsBusWrite(log[i])
        \/ log[i].op = "read" /\ i > 1 /\ IsBusWrite(log[i - 1])
IsChannelRead == target \in Channels /\ last = "call" /\ member = "read"

C18_ChannelReadReached ==
    /\ IsChannelRead /\ target = "ch1"
    /\ Len(bus) = 1 /\ bus[1].op = "read"

(***************************************************************************)
(* C19: arming_auto does not make the timer the arm-stop source: it never  *)
(* writes ":FREQ:ARM:STOP:SOUR TIM", and what it writes is not the start   *)
(* of what arming_time(t) writes.                                          *)
(***************************************************************************)
IsPrefix(a, b) == Len(a) <= Len(b) /\ SubSeq(b, 1, Len(a)) = a
ArmingTimeTraffic(t) ==
    Exec(Agilent53131A_arming_time(t).steps, <<>>, <<>>, <<>>).log

C19_AutoIsNotTimed ==
    (last = "call" /\ member = "arming_auto") =>
        /\ ":FREQ:ARM:STOP:SOUR TIM" \notin Written
        /\ \A t \in Times : ~IsPrefix(bus, ArmingTimeTraffic(t))

(***************************************************************************)
(* C20: check_errors on an instrument holding n queued errors does exactly *)
(* n + 1 exchanges, each a write of "SYST:ERR?" followed by one read, and  *)
(* nothing else on the bus; with an empty queue it does exactly one        *)
(* exchange and returns the empty list.                                    *)
(***************************************************************************)
C20_OneExchangePerErrorAndOne ==
    last = "check_errors" =>
        /\ Len(bus) = 2 * (Len(errq0) + 1)
        /\ \A k \in 1..(Len(errq0) + 1) :
              /\ bus[2 * k - 1] = BusWrite("SYST:ERR?")
              /\ bus[2 * k].op = "read"
        /\ errq0 = <<>> => ret = <<>>

C20_Witness ==
    /\ last = "check_errors"
    /\ Len(errq0) = 2
    /\ Len(bus) = 6

C20_EmptyQueueReached ==
    /\ last = "check_errors"
    /\ errq0 = <<>>
    /\ Len(bus) = 2
    /\ ret = <<>>

(***************************************************************************)
(* C21: cal_read() writes ":CAL:DATA?" and then does exactly one read,     *)
(* whose bytes it returns as they are; cal_write(d) puts exactly one       *)
(* message on the bus, the bytes of ":CAL:DATA " followed by the bytes of  *)
(* d as they are; so cal_write(cal_read()) sends the instrument the bytes  *)
(* of ":CAL:DATA " followed by exactly the bytes it delivered.             *)
(***************************************************************************)
IsCalRead  == last = "call" /\ target = "meter" /\ member = "cal_read"
IsCalWrite == last = "call" /\ target = "meter" /\ member = "cal_write"
CalDataHeader == <<58, 67, 65, 76, 58, 68, 65, 84, 65, 32>>

C21_CalibrationRoundTrip ==
    /\ IsCalRead =>
          /\ raised = ""
          /\ Len(bus) = 2
          /\ bus[1] = BusWrite(":CAL:DATA?")
          /\ bus[2].op = "read"
          /\ ret = bus[2].reply
    /\ IsCalWrite =>
          /\ raised = ""
          /\ Len(bus) = 1
          /\ bus[1].op = "write_raw"
          /\ bus[1].reply = CalDataHeader \o given.l
    /\ (IsCalWrite /\ calread # <<>> /\ given.l = calread[1]) =>
          bus[1].reply = CalDataHeader \o calread[1]

C21_Witness ==
    /\ IsCalWrite
    /\ calread = <<(<<35, 49, 52, 0, 10, 255, 8, 10>>)>>
    /\ given.l = calread[1]
    /\ bus = <<BusWriteRaw(<<58, 67, 65, 76, 58, 68, 65, 84, 65, 32,
                             35, 49, 52, 0, 10, 255, 8, 10>>)>>

C21_ReadReached ==
    /\ IsCalRead
    /\ ret = <<35, 49, 52, 0, 10, 255, 8, 10>>

=============================================================================
